---------------------------- MODULE Spec2Model ----------------------------
(***************************************************************************)
(* openERCOT: construction of the dispatch model (build_network in         *)
(* src/main.py) and the rolling-horizon execution of the optimisation      *)
(* (chunk size set_size and overlap of src/scenario.py).                   *)
(*                                                                         *)
(* These state machines share this module.                                 *)
(*   SpecChunker  the Horizon Chunker and Stitcher.  The repository's      *)
(*                chunking loop is not among the source files at hand;     *)
(*                only its parameters (SimulationParams) are, so the       *)
(*                machine follows section 4.4 of the specification.        *)
(*   SpecBid      build_network's loop over the unit registry, one step    *)
(*   SpecEcon     per unit, followed by the import of the series.  The     *)
(*                two differ in the inputs Init draws.                     *)
(*   SpecRenew    get_ercot_solar_wind_data and get_all_ercot_data of      *)
(*                src/ercot_data.py: the renewable utilisation table.      *)
(*   SpecJoin     build_generators of src/main.py: the zone and heat-rate  *)
(*                joins of the unit table.                                 *)
(*   SpecSubmit   analyze_network of src/main.py: build_network followed   *)
(*                by network.optimize.                                     *)
(*   SpecLoad     the normalisation of the load table's calendar           *)
(*                (src/ercot_data.py and the head of build_network).       *)
(*   SpecFetch    the paged retrieval loops of src/eia_data.py;            *)
(*   SpecFetchFair  the same loop with the function kept running.          *)
(*   SpecScenario load_scenario and validate_dict of src/utils.py.         *)
(***************************************************************************)
EXTENDS Integers, Sequences, FiniteSets, TLC

VARIABLES
    \* ---- Horizon Chunker --------------------------------------------
    horizon,      \* N: number of snapshots of the simulation horizon
    set_size,     \* S: SimulationParams.set_size
    overlap,      \* O: SimulationParams.overlap
    cpc,          \* "idle" | "solve" | "stitch" | "done"
    submitted,    \* sequence of the sub-ranges handed to the optimizer
    inflight,     \* chunks submitted and not yet answered
    results,      \* chunk -> answer of the optimizer
    completed,    \* chunks in the order their solves completed
    failures,     \* reports of failed chunks
    stitched,     \* the stitched result, one entry per snapshot
    stitchNext,   \* position of the next piece to stitch
    \* ---- build_network -----------------------------------------------
    generators,   \* the reconciled unit table (sequence of rows)
    fuel_raw,     \* raw cost-per-btu readings: <<month, fuel>> -> reading
    cap_profile,  \* which renewable utilisation data set was downloaded
    bpc,          \* "idle" | "loop" | "done" | "error"
    unit_idx,     \* position of generators.iterrows()
    components,   \* components added to the network so far
    all_bids,     \* list of marginal-cost series
    all_caps,     \* list of availability series
    fallback_log, \* audit log of substituted bids
    vom,          \* variable operating cost the bid formula is stated with
    \* ---- get_ercot_solar_wind_data, get_all_ercot_data -----------------
    solar_raw,    \* "Solar Data" sheet: hour -> utilisation, or no row
    wind_raw,     \* "Wind Data" sheet: hour -> utilisation, or no row
    hydro_mix,    \* fuel_mix["hydro"]: hour -> generation
    rpc,          \* "idle" | "read" | "concat" | "resampled" | "trimmed" | "done"
    combined,     \* the renewable table: index and one sequence per column
    \* ---- build_generators ----------------------------------------------
    units_raw,    \* get_eia_unit_data(year, last=True): one row per unit
    county_to_zone, \* zone_to_county.csv: rows of county and weather_zone
    heatrates,    \* build_heatrates_plant: rows of plantCode and heatRate
    jpc,          \* "idle" | "units" | "zoned" | "rated" | "done"
    units,        \* the unit table being built
    \* ---- the load table ----------------------------------------------
    load_raw,     \* rows of the load workbook: the "Hour Ending" labels
    load_fn,      \* "annual" (ercot_data.py) | "build" (main.py) | "none"
    lpc,          \* "idle" | "read" | "filtered" | "replaced" | "indexed"
                  \*   | "shifted" | "done"
    load_data,    \* the load table being normalised
    network_snapshots, \* network.snapshots
    \* ---- paged retrieval from the EIA API -------------------------------
    fetch_fn,     \* "get_eia_unit_data" | "get_eia_unit_generation" | "none"
    offset,       \* local offset
    total,        \* local total
    data,         \* local data: the offset of the page of each extension
    fpc,          \* "idle" | "request" | "respond" | "sleep" | "returned"
                  \*   | "raised"
    response,     \* r: status_code, whether the body is JSON, its total
    requested,    \* the offset the last request asked for
    n_ok,         \* number of requests answered with 200
    error,        \* the exception the function raised
    \* ---- load_scenario ------------------------------------------------
    is_file,      \* isfile(path)
    scenario,     \* toml.load(path)
    spc,          \* "idle" | "start" | "loaded" | "returned" | "raised"
                  \*   | "exited"
    outcome       \* what validate_dict did: "ok" or the exception raised

chunkVars == <<horizon, set_size, overlap, cpc, submitted, inflight, results,
               completed, failures, stitched, stitchNext>>
bidVars   == <<generators, fuel_raw, cap_profile, bpc, unit_idx, components,
               all_bids, all_caps, fallback_log, vom>>
renewVars == <<solar_raw, wind_raw, hydro_mix, rpc, combined>>
joinVars  == <<units_raw, county_to_zone, heatrates, jpc, units>>
loadVars  == <<load_raw, load_fn, lpc, load_data, network_snapshots>>
fetchVars == <<fetch_fn, offset, total, data, fpc, response, requested, n_ok,
               error>>
scenVars  == <<is_file, scenario, spc, outcome>>
ioVars    == <<loadVars, fetchVars, scenVars>>
dataVars  == <<renewVars, joinVars, ioVars>>
vars      == <<chunkVars, bidVars, dataVars>>

Min(a, b) == IF a <= b THEN a ELSE b

(***************************************************************************)
(* Bounds of the chunker model.                                            *)
(***************************************************************************)
MaxN == 5
MaxS == 3
MaxO == 2
MaxInflight == 2

(***************************************************************************)
(* Horizon Chunker: the partition of the horizon.  Snapshots are numbered  *)
(* 0 .. N-1.                                                               *)
(***************************************************************************)

\* Number of chunks: one per full set_size block, plus the remainder chunk.
NumChunksZeroIsNone(N, S) ==
    IF S = 0 THEN 0 ELSE (N \div S) + (IF N % S # 0 THEN 1 ELSE 0)
NumChunks(N, S) ==
    IF S = 0 THEN 1 ELSE (N \div S) + (IF N % S # 0 THEN 1 ELSE 0)

\* Size of the primary (retained) region of chunk i, i = 1 .. NumChunks.
PrimarySizeKeepsOverlap(N, S, O, i) ==
    IF S = 0 THEN N ELSE Min(S + O, N - (i - 1) * S)
PrimarySize(N, S, O, i) ==
    IF S = 0 THEN N
    ELSE IF i <= N \div S THEN S ELSE N % S

\* The sub-range [lo, hi) of snapshots chunk i is solved on.
ChunkRangeNoOverlap(N, S, O, i) ==
    IF S = 0 THEN [lo |-> 0, hi |-> N]
    ELSE [lo |-> (i - 1) * S, hi |-> Min((i - 1) * S + S, N)]
ChunkRange(N, S, O, i) ==
    IF S = 0 THEN [lo |-> 0, hi |-> N]
    ELSE IF i <= N \div S
         THEN [lo |-> (i - 1) * S, hi |-> Min((i - 1) * S + S + O, N)]
         ELSE [lo |-> (N \div S) * S, hi |-> N]

\* Whether the stitched result keeps snapshot t of chunk i, and the
\* snapshots of chunk i it keeps.
IsRetained(N, S, O, i, t) ==
    LET r == ChunkRange(N, S, O, i)
    IN  r.lo <= t /\ t < r.lo + PrimarySize(N, S, O, i)

Retained(N, S, O, i) == { t \in 0 .. N - 1 : IsRetained(N, S, O, i, t) }


\* Number of chunks of the configured horizon.
K == NumChunks(horizon, set_size)

(***************************************************************************)
(* The optimizer's answer.  An answer is "ok" with a dispatch value for    *)
(* every snapshot of the sub-range it was given, or "infeasible".  The     *)
(* dispatch solve i computes for snapshot t differs from solve to solve    *)
(* and from snapshot to snapshot; by records which solve computed it.      *)
(***************************************************************************)
Dispatch(i, t) == [by |-> i, mw |-> (2 * i + t) % 3]

\* The chunk whose answer supplies snapshot t of piece i.
SourceChunkFirstWriter(i, t) ==
    IF i > 1 /\ t < ChunkRange(horizon, set_size, overlap, i - 1).hi
    THEN i - 1 ELSE i
SourceChunk(i, t) == i

\* The stitched entry of snapshot t when chunk i has no answer to give.
ZeroFilledEntry(i, t) == [snap |-> t, present |-> TRUE, by |-> i, mw |-> 0]
AbsentEntry(i, t) == [snap |-> t, present |-> FALSE, by |-> 0, mw |-> 0]

StitchedEntry(i, t) ==
    LET src == SourceChunk(i, t) IN
    IF results[src] = "ok"
    THEN [snap |-> t, present |-> TRUE,
          by |-> Dispatch(src, t).by, mw |-> Dispatch(src, t).mw]
    ELSE AbsentEntry(i, t)

\* The piece of chunk i: its answer restricted to its first set_size snapshots.
Piece(i) ==
    [k \in 1 .. PrimarySize(horizon, set_size, overlap, i) |->
        StitchedEntry(i, ChunkRange(horizon, set_size, overlap, i).lo + k - 1)]

\* The chunk whose piece is stitched in position k.
StitchOrderByCompletion(k) == completed[k]
StitchOrder(k) == k

\* The chunk submitted as the k-th solve.
SubmitOrder(k) == k

(***************************************************************************)
(* Actions of the chunker.                                                 *)
(***************************************************************************)
BidIdle ==
    /\ generators = <<>>
    /\ fuel_raw = <<>>
    /\ cap_profile = 0
    /\ bpc = "idle"
    /\ unit_idx = 0
    /\ components = <<>>
    /\ all_bids = <<>>
    /\ all_caps = <<>>
    /\ fallback_log = {}
    /\ vom = 0

\* The data pipelines are not running.
RenewIdle ==
    /\ solar_raw = <<>>
    /\ wind_raw = <<>>
    /\ hydro_mix = <<>>
    /\ rpc = "idle"
    /\ combined = <<>>

JoinIdle ==
    /\ units_raw = <<>>
    /\ county_to_zone = <<>>
    /\ heatrates = <<>>
    /\ jpc = "idle"
    /\ units = <<>>

LoadIdle ==
    /\ load_raw = <<>>
    /\ load_fn = "none"
    /\ lpc = "idle"
    /\ load_data = <<>>
    /\ network_snapshots = <<>>

FetchIdle ==
    /\ fetch_fn = "none"
    /\ offset = 0
    /\ total = 0
    /\ data = <<>>
    /\ fpc = "idle"
    /\ response = <<>>
    /\ requested = 0
    /\ n_ok = 0
    /\ error = "none"

ScenarioIdle ==
    /\ is_file = FALSE
    /\ scenario = <<>>
    /\ spc = "idle"
    /\ outcome = "none"

IoIdle == LoadIdle /\ FetchIdle /\ ScenarioIdle

DataIdle == RenewIdle /\ JoinIdle /\ IoIdle

InitChunker ==
    /\ horizon \in 1 .. MaxN
    /\ set_size \in 0 .. MaxS
    /\ overlap \in 0 .. MaxO
    /\ cpc = "solve"
    /\ submitted = <<>>
    /\ inflight = {}
    /\ results = [i \in 1 .. NumChunks(horizon, set_size) |-> "pending"]
    /\ completed = <<>>
    /\ failures = {}
    /\ stitched = <<>>
    /\ stitchNext = 1
    /\ BidIdle
    /\ DataIdle

\* The next chunk is handed to the optimizer with its explicit sub-range.
Submit ==
    /\ cpc = "solve"
    /\ Len(submitted) < K
    /\ Cardinality(inflight) < MaxInflight
    /\ LET i == SubmitOrder(Len(submitted) + 1)
           r == ChunkRange(horizon, set_size, overlap, i)
       IN  /\ submitted' = Append(submitted, [id |-> i, lo |-> r.lo, hi |-> r.hi])
           /\ inflight' = inflight \cup {i}
    /\ UNCHANGED <<horizon, set_size, overlap, cpc, results, completed,
                   failures, stitched, stitchNext, bidVars, dataVars>>

\* The optimizer solves chunk i.
SolveOk(i) ==
    /\ cpc = "solve"
    /\ i \in inflight
    /\ results' = [results EXCEPT ![i] = "ok"]
    /\ inflight' = inflight \ {i}
    /\ completed' = Append(completed, i)
    /\ UNCHANGED <<horizon, set_size, overlap, cpc, submitted, failures,
                   stitched, stitchNext, bidVars, dataVars>>

\* The optimizer reports chunk i infeasible or not converged: the chunk is
\* reported with its range and is not submitted again.
SolveFail(i) ==
    /\ cpc = "solve"
    /\ i \in inflight
    /\ results' = [results EXCEPT ![i] = "infeasible"]
    /\ inflight' = inflight \ {i}
    /\ completed' = Append(completed, i)
    /\ failures' = failures \cup
          {[chunk |-> i,
            lo |-> ChunkRange(horizon, set_size, overlap, i).lo,
            hi |-> ChunkRange(horizon, set_size, overlap, i).hi]}
    /\ UNCHANGED <<horizon, set_size, overlap, cpc, submitted, stitched,
                   stitchNext, bidVars, dataVars>>

\* All chunks are solved: stitching starts.
BeginStitch ==
    /\ cpc = "solve"
    /\ Len(submitted) = K
    /\ inflight = {}
    /\ cpc' = "stitch"
    /\ UNCHANGED <<horizon, set_size, overlap, submitted, inflight, results,
                   completed, failures, stitched, stitchNext, bidVars, dataVars>>

\* The next piece is appended to the stitched result.
StitchStep ==
    /\ cpc = "stitch"
    /\ stitchNext <= K
    /\ stitched' = stitched \o Piece(StitchOrder(stitchNext))
    /\ stitchNext' = stitchNext + 1
    /\ UNCHANGED <<horizon, set_size, overlap, cpc, submitted, inflight,
                   results, completed, failures, bidVars, dataVars>>

FinishStitch ==
    /\ cpc = "stitch"
    /\ stitchNext = K + 1
    /\ cpc' = "done"
    /\ UNCHANGED <<horizon, set_size, overlap, submitted, inflight, results,
                   completed, failures, stitched, stitchNext, bidVars, dataVars>>

NextChunker ==
    \/ Submit
    \/ \E i \in 1 .. K : SolveOk(i)
    \/ \E i \in 1 .. K : SolveFail(i)
    \/ BeginStitch
    \/ StitchStep
    \/ FinishStitch

SpecChunker == InitChunker /\ [][NextChunker]_vars

(***************************************************************************)
(* Properties of the chunker.                                              *)
(***************************************************************************)

\* C1 (chunk coverage): for set_size > 0 and any overlap, the retained
\* regions of the chunks are pairwise disjoint and their union is the whole
\* horizon 0 .. N-1 (every snapshot lies in the retained region of exactly
\* one chunk), and the stitched result holds every snapshot exactly once.
C1_ChunkCoverage ==
    set_size > 0 =>
        /\ \A t \in 0 .. horizon - 1 :
              Cardinality({ i \in 1 .. NumChunks(horizon, set_size) :
                              IsRetained(horizon, set_size, overlap, i, t) }) = 1
        /\ cpc = "done" =>
              /\ Len(stitched) = horizon
              /\ \A t \in 0 .. horizon - 1 : stitched[t + 1].snap = t

C1_Witness ==
    /\ cpc = "done"
    /\ set_size > 0
    /\ overlap > 0
    /\ K >= 2
    /\ horizon % set_size # 0

\* C2 (chunk boundaries and count): for set_size > 0 the k-th solve is on
\* [(k-1)*S, (k-1)*S + S + O) limited to the horizon, the last one on the
\* N mod S trailing snapshots when S does not divide N; the number of chunks
\* and the primary sizes are the same for every overlap; S = 24, N = 73
\* gives three chunks of primary size 24 and a remainder chunk of size 1.
C2_ChunkBoundaries ==
    /\ set_size > 0 =>
        /\ K = (horizon \div set_size)
                 + (IF horizon % set_size # 0 THEN 1 ELSE 0)
        /\ Len(submitted) <= K
        /\ cpc # "solve" => Len(submitted) = K
        /\ \A k \in 1 .. Len(submitted) :
              IF k <= horizon \div set_size
              THEN /\ submitted[k].lo = (k - 1) * set_size
                   /\ submitted[k].hi =
                        Min((k - 1) * set_size + set_size + overlap, horizon)
              ELSE /\ submitted[k].lo = (horizon \div set_size) * set_size
                   /\ submitted[k].hi = horizon
                   /\ submitted[k].hi - submitted[k].lo = horizon % set_size
        /\ \A o \in 0 .. MaxO, i \in 1 .. K :
              PrimarySize(horizon, set_size, o, i)
                 = (IF i <= horizon \div set_size
                    THEN set_size ELSE horizon % set_size)
    /\ \A o \in 0 .. MaxO :
        /\ NumChunks(73, 24) = 4
        /\ \A i \in 1 .. 3 :
              /\ PrimarySize(73, 24, o, i) = 24
              /\ ChunkRange(73, 24, o, i).lo = (i - 1) * 24
              /\ ChunkRange(73, 24, o, i).hi = Min((i - 1) * 24 + 24 + o, 73)
        /\ PrimarySize(73, 24, o, 4) = 1
        /\ ChunkRange(73, 24, o, 4) = [lo |-> 72, hi |-> 73]

C2_Witness ==
    /\ set_size > 0
    /\ overlap > 0
    /\ K >= 3
    /\ horizon % set_size # 0
    /\ Len(submitted) = K
    /\ \E k \in 1 .. K : submitted[k].hi - submitted[k].lo = set_size + overlap

\* C3 (overlap discard): in the stitched result the value of snapshot t is
\* the one computed by chunk floor(t / S); no value a chunk computed beyond
\* its first S snapshots appears, and the pieces follow in chunk order.
C3_OverlapDiscard ==
    (cpc = "done" /\ set_size > 0) =>
        /\ Len(stitched) = horizon
        /\ \A t \in 0 .. horizon - 1 :
              LET c == (t \div set_size) + 1
                  e == stitched[t + 1]
              IN  /\ e.snap = t
                  /\ e.present => e.by = c
                  /\ results[c] = "ok" =>
                        /\ e.present
                        /\ e.mw = Dispatch(c, t).mw

C3_Witness ==
    /\ cpc = "done"
    /\ set_size > 0
    /\ overlap > 0
    /\ K >= 2
    /\ \A i \in 1 .. K : results[i] = "ok"
    /\ \E t \in 0 .. horizon - 1 :
          /\ t >= ChunkRange(horizon, set_size, overlap, 2).lo
          /\ t < ChunkRange(horizon, set_size, overlap, 1).hi
          /\ Dispatch(1, t) # Dispatch(2, t)

\* C4 (failed chunk surfaced): a chunk the optimizer reports infeasible is
\* reported with its snapshot range, is submitted exactly once, and its
\* retained range is absent from the stitched result: neither zero-filled
\* nor taken from another chunk.
C4_FailedChunkSurfaced ==
    /\ \A f \in failures :
          /\ f.chunk \in 1 .. K
          /\ results[f.chunk] = "infeasible"
    /\ \A i \in 1 .. K :
          results[i] = "infeasible" =>
            /\ [chunk |-> i,
                lo |-> ChunkRange(horizon, set_size, overlap, i).lo,
                hi |-> ChunkRange(horizon, set_size, overlap, i).hi]
                  \in failures
            /\ Cardinality({k \in 1 .. Len(submitted) : submitted[k].id = i}) = 1
            /\ cpc = "done" =>
                  /\ Len(stitched) = horizon
                  /\ \A t \in Retained(horizon, set_size, overlap, i) :
                        /\ stitched[t + 1].snap = t
                        /\ ~ stitched[t + 1].present

C4_Witness ==
    /\ cpc = "done"
    /\ overlap > 0
    /\ \E i \in 2 .. K :
          /\ results[i] = "infeasible"
          /\ results[i - 1] = "ok"
          /\ ChunkRange(horizon, set_size, overlap, i - 1).hi
                > ChunkRange(horizon, set_size, overlap, i).lo

\* C5 (chronological order): chunk i is submitted before chunk i+1, and the
\* stitched result is assembled in chunk order whatever order the solves
\* complete in.
C5_ChronologicalOrder ==
    /\ \A k \in 1 .. Len(submitted) : submitted[k].id = k
    /\ \A k \in 1 .. Len(submitted) - 1 : submitted[k].lo < submitted[k + 1].lo
    /\ \A k \in 1 .. Len(stitched) : stitched[k].snap = k - 1
    /\ set_size > 0 =>
          Len(stitched) = Min((stitchNext - 1) * set_size, horizon)

C5_Witness ==
    /\ cpc = "done"
    /\ \E k \in 1 .. Len(completed) - 1 : completed[k] > completed[k + 1]

Num(x) == [k |-> "num", v |-> x]
NaN == [k |-> "nan", v |-> 0]
Inf == [k |-> "inf", v |-> 0]
KeyError == [k |-> "keyerror", v |-> 0]

\* math.isnan
IsNaN(x) == x.k = "nan"

\* IEEE product and sum of two non-negative values.
FMul(a, b) ==
    IF a.k = "nan" \/ b.k = "nan" THEN NaN
    ELSE IF a.k = "inf" \/ b.k = "inf"
         THEN (IF (a.k = "num" /\ a.v = 0) \/ (b.k = "num" /\ b.v = 0)
               THEN NaN ELSE Inf)
         ELSE Num(a.v * b.v)

FAdd(a, b) ==
    IF a.k = "nan" \/ b.k = "nan" THEN NaN
    ELSE IF a.k = "inf" \/ b.k = "inf" THEN Inf
    ELSE Num(a.v + b.v)

(***************************************************************************)
(* Bounds and input domains of the build model.                            *)
(***************************************************************************)
MaxUnits == 2
MaxShots == 3

\* network.snapshots = load_data.head(n_shots).index; two snapshots a month.
Snapshots == 1 .. MaxShots
SnapMonth(s) == (s + 1) \div 2

Months == {1, 2}
Fuels == {"NG", "PC"}

StorageTechs == {"Batteries", "Flywheels"}
RenewableTechs ==
    {"Solar Photovoltaic", "Onshore Wind Turbine", "Conventional Hydroelectric"}
DispatchableTechs == {"Natural Gas Steam Turbine", "Petroleum Coke"}
Technologies ==
    {"Batteries"} \cup RenewableTechs \cup {"Nuclear", "Landfill Gas"}
        \cup DispatchableTechs

\* Plant heat rates a row may carry after the merge with the plant table.
\* The finite values are multiples of 6000 so that the mean of up to three
\* of them is a whole number of thousandths.
HeatRateValues == {NaN, Inf, Num(6000), Num(12000)}

\* The energy source code the registry reports for a technology.
SourceCodeOf(tech) == IF tech = "Petroleum Coke" THEN "PC" ELSE "NG"

\* TECHNOLOGY_MAP, on the technologies of the model.
TECHNOLOGY_MAP(tech) ==
    CASE tech = "Natural Gas Steam Turbine" -> "gas"
      [] tech = "Petroleum Coke" -> "coal"
      [] tech = "Landfill Gas" -> "gas"
      [] OTHER -> "KeyError"

\* A registry row.  operating_year_month is the first operating month and
\* period the last month the registry reports the unit in; build_network
\* requests both columns.  weather_zone is the zone build_generators joined
\* to the unit's county.
UnitRow(tech, hr, first, last) ==
    [technology |-> tech,
     heatRate |-> hr,
     energy_source_code |-> SourceCodeOf(tech),
     operating_year_month |-> first,
     period |-> last,
     weather_zone |-> "COAST"]

\* Rows whose operating window covers every month of the horizon.  Only the
\* dispatchable branch reads heatRate, so the other rows carry NaN.
RowsAlwaysOperating ==
    { UnitRow(tech, hr, 1, 2) :
        tech \in DispatchableTechs, hr \in HeatRateValues }
    \cup { UnitRow(tech, NaN, 1, 2) : tech \in Technologies \ DispatchableTechs }

\* Rows with every operating window first <= last over the months.
RowsAnyWindow ==
    { UnitRow(r.technology, r.heatRate, w[1], w[2]) :
        r \in RowsAlwaysOperating,
        w \in { x \in Months \X Months : x[1] <= x[2] } }

\* Whether the unit's operating window covers month m.
InWindow(unit, m) == unit.operating_year_month <= m /\ m <= unit.period

(***************************************************************************)
(* get_fuel_costs: the fuel price table.  A raw reading of <<month, fuel>> *)
(* is -1 (no record), 0 or a positive cost.                                *)
(***************************************************************************)
CostOf(m, f) == m + (IF f = "NG" THEN 1 ELSE 4)

\* The raw tables: every cell without a record, with its cost or, when
\* zeros is TRUE, with a zero reading.  The response holds at least one
\* record (the cost-per-btu column exists).
RawTables(zeros) ==
    { t \in [Months \X Fuels ->
               {-1, 0} \cup { CostOf(c[1], c[2]) : c \in Months \X Fuels }] :
        /\ \E c \in Months \X Fuels : t[c] # -1
        /\ \A c \in Months \X Fuels :
              \/ t[c] = -1
              \/ t[c] = CostOf(c[1], c[2])
              \/ zeros /\ t[c] = 0 }

\* replace(to_replace=0, value=np.nan).dropna(): the records kept.
KeptReadingsWithZeros(raw) == { c \in DOMAIN raw : raw[c] >= 0 }
KeptReadings(raw) == { c \in DOMAIN raw : raw[c] > 0 }

\* pivot_table(index="period", columns="fueltypeid", values="cost-per-btu"):
\* a row for every period and a column for every fuel with a kept record,
\* NaN in a cell without one.
FuelCosts(raw) ==
    LET kept == KeptReadings(raw)
    IN  [rows |-> { c[1] : c \in kept },
         cols |-> { c[2] : c \in kept },
         cell |-> [c \in DOMAIN raw |-> IF c \in kept THEN Num(raw[c]) ELSE NaN]]

\* fuel_prices.loc[fuel_index, energy_source_code]
PriceLookup(fp, m, f) ==
    IF m \notin fp.rows \/ f \notin fp.cols THEN KeyError
    ELSE fp.cell[<<m, f>>]

(***************************************************************************)
(* Heat rates (build_network, lines 327-334 and 444-448).                  *)
(***************************************************************************)
RECURSIVE SumHeat(_, _)
SumHeat(gens, idx) ==
    IF idx = {} THEN 0
    ELSE LET i == CHOOSE x \in idx : TRUE
         IN  gens[i].heatRate.v + SumHeat(gens, idx \ {i})

\* Rows of a technology whose heat rate is not NaN (mean() skips NaN).
RatedRows(gens, tech) ==
    { i \in DOMAIN gens :
        gens[i].technology = tech /\ ~ IsNaN(gens[i].heatRate) }

\* generators.groupby("technology")["heatRate"].mean() for one technology:
\* NaN when no row of the technology has a heat rate.
TechnologyMean(gens, tech) ==
    LET rated == RatedRows(gens, tech)
    IN  IF rated = {} THEN NaN
        ELSE IF \E i \in rated : gens[i].heatRate.k = "inf" THEN Inf
        ELSE Num(SumHeat(gens, rated) \div Cardinality(rated))

\* The technologies assigned a constant, and the constant, in thousandths.
HardcodedTechs ==
    {"Natural Gas Internal Combustion Engine", "Landfill Gas",
     "Other Waste Biomass", "Petroleum Coke", "All Other"}

HardcodedHeatRate(tech) ==
    CASE tech = "Natural Gas Internal Combustion Engine" -> 8894
      [] tech = "Petroleum Coke" -> 10026
      [] OTHER -> 11030

\* default_heat_rates: the technology means with the NaN entries dropped,
\* then the constants assigned over them.
DefaultHeatRates(gens) ==
    LET present == { gens[i].technology : i \in DOMAIN gens }
        meaned == { tech \in present : ~ IsNaN(TechnologyMean(gens, tech)) }
    IN  [tech \in meaned \cup HardcodedTechs |->
            IF tech \in HardcodedTechs THEN Num(HardcodedHeatRate(tech))
            ELSE TechnologyMean(gens, tech)]

\* heat_rate of a dispatchable unit: the unit's own unless it is NaN;
\* KeyError when the technology has no default.
ResolveHeatRateGuessed(gens, unit) ==
    IF IsNaN(unit.heatRate)
    THEN (IF unit.technology \in DOMAIN DefaultHeatRates(gens)
          THEN DefaultHeatRates(gens)[unit.technology]
          ELSE Num(11030))
    ELSE unit.heatRate
ResolveHeatRate(gens, unit) ==
    IF IsNaN(unit.heatRate)
    THEN (IF unit.technology \in DOMAIN DefaultHeatRates(gens)
          THEN DefaultHeatRates(gens)[unit.technology]
          ELSE KeyError)
    ELSE unit.heatRate

(***************************************************************************)
(* Bids and availability.                                                  *)
(***************************************************************************)
\* The bid of one snapshot of a dispatchable unit (lines 454-462).
SnapshotBidBySnapshot(fp, unit, hr, s) ==
    LET price == PriceLookup(fp, Min(s, 2), unit.energy_source_code)
    IN  IF price = KeyError THEN Num(0) ELSE FMul(price, hr)
SnapshotBid(fp, unit, hr, s) ==
    LET price == PriceLookup(fp, SnapMonth(s), unit.energy_source_code)
    IN  IF price = KeyError THEN Num(0) ELSE FMul(price, hr)

\* pd.Series(value, index=network.snapshots)
ConstantSeries(x) == [s \in Snapshots |-> Num(x)]

\* get_renewable_gen: utilisation of the installed capacity in hundredths.
\* In data set 2 the first snapshot is not among the downloaded hours.
RenewableGen(profile, carrier, s) ==
    IF profile = 2 /\ s = 1 THEN NaN
    ELSE Num(10 * s + (IF carrier = "SOLAR" THEN 0 ELSE 5))

\* pd.Series(solar_cap, index=network.snapshots)
CapSeries(profile, carrier) ==
    [s \in Snapshots |-> RenewableGen(profile, carrier, s)]

(***************************************************************************)
(* build_network: the loop over generators.iterrows(), one step per unit,  *)
(* then the import of the series into the network.                         *)
(***************************************************************************)
ChunkIdle ==
    /\ horizon = 0
    /\ set_size = 0
    /\ overlap = 0
    /\ cpc = "idle"
    /\ submitted = <<>>
    /\ inflight = {}
    /\ results = <<>>
    /\ completed = <<>>
    /\ failures = {}
    /\ stitched = <<>>
    /\ stitchNext = 0

\* The state on entering the loop (lines 352-355).
BuildStart ==
    /\ bpc = "loop"
    /\ unit_idx = 1
    /\ components = <<>>
    /\ all_bids = <<>>
    /\ all_caps = <<>>
    /\ fallback_log = {}

\* Unit tables of 1 .. n rows.
Registries(rows, n) == UNION { [1 .. k -> rows] : k \in 1 .. n }

\* Registries of units that operate over the whole horizon.
InitBid ==
    /\ generators \in Registries(RowsAlwaysOperating, MaxUnits)
    /\ fuel_raw \in RawTables(FALSE)
    /\ cap_profile \in {1, 2}
    /\ vom = 0
    /\ BuildStart
    /\ ChunkIdle
    /\ DataIdle

\* One unit of any operating window, alone or beside a solar unit; zero
\* readings in the fuel table; a variable operating cost of 0 or 1.
InitEcon ==
    /\ \E r \in RowsAnyWindow :
          \/ generators = <<r>>
          \/ generators = <<r, UnitRow("Solar Photovoltaic", NaN, 1, 2)>>
    /\ fuel_raw \in RawTables(TRUE)
    /\ cap_profile = 1
    /\ vom \in {0, 1}
    /\ BuildStart
    /\ ChunkIdle
    /\ DataIdle

InLoop == bpc = "loop" /\ unit_idx <= Len(generators)

\* network.add(kind, ...) for the current unit; heat_rate is the value of
\* the local heat_rate when the dispatchable branch computed one.
Component(kind, carrier, hr) ==
    [kind |-> kind, unit |-> unit_idx, carrier |-> carrier, heat_rate |-> hr,
     bus |-> generators[unit_idx].weather_zone]

Series(values) == [unit |-> unit_idx, series |-> values]

NextUnit(comps, bids, caps) ==
    /\ components' = comps
    /\ all_bids' = bids
    /\ all_caps' = caps
    /\ unit_idx' = unit_idx + 1
    /\ UNCHANGED <<generators, fuel_raw, cap_profile, bpc, fallback_log, vom,
                   chunkVars, dataVars>>

\* Batteries and flywheels: a StorageUnit, no series (lines 358-366).
AddStorage ==
    /\ InLoop
    /\ generators[unit_idx].technology \in StorageTechs
    /\ NextUnit(Append(components, Component("StorageUnit", "", NaN)),
                all_bids, all_caps)

\* "Solar" in technology (lines 374-388).
AddSolar ==
    /\ InLoop
    /\ generators[unit_idx].technology = "Solar Photovoltaic"
    /\ NextUnit(Append(components, Component("Generator", "SOLAR", NaN)),
                Append(all_bids, Series(ConstantSeries(-20))),
                Append(all_caps, Series(CapSeries(cap_profile, "SOLAR"))))

\* "Wind" in technology (lines 390-404).
AddWind ==
    /\ InLoop
    /\ generators[unit_idx].technology = "Onshore Wind Turbine"
    /\ NextUnit(Append(components, Component("Generator", "WIND", NaN)),
                Append(all_bids, Series(ConstantSeries(-20))),
                Append(all_caps, Series(CapSeries(cap_profile, "WIND"))))

\* Conventional Hydroelectric is in the renewable tuple and matches neither
\* "Solar" nor "Wind": the iteration adds nothing (lines 368-404).
SkipHydro ==
    /\ InLoop
    /\ generators[unit_idx].technology = "Conventional Hydroelectric"
    /\ NextUnit(components, all_bids, all_caps)

\* "Nuclear" in technology (lines 406-417).
AddNuclear ==
    /\ InLoop
    /\ generators[unit_idx].technology = "Nuclear"
    /\ NextUnit(Append(components, Component("Generator", "NUCLEAR", NaN)),
                Append(all_bids, Series(ConstantSeries(5))),
                all_caps)

\* "Landfill Gas" in technology (lines 418-430).
AddLandfill ==
    /\ InLoop
    /\ generators[unit_idx].technology = "Landfill Gas"
    /\ NextUnit(Append(components, Component("Generator", "LANDFILL GAS", NaN)),
                Append(all_bids, Series(ConstantSeries(0))),
                all_caps)

\* Every other technology (lines 431-466): the heat rate is resolved and a
\* bid is computed for every snapshot.
AddDispatchable ==
    /\ InLoop
    /\ generators[unit_idx].technology \in DispatchableTechs
    /\ LET unit == generators[unit_idx]
           hr == ResolveHeatRate(generators, unit)
       IN  /\ hr # KeyError
           /\ NextUnit(
                Append(components,
                       Component("Generator", TECHNOLOGY_MAP(unit.technology), hr)),
                Append(all_bids,
                       Series([s \in Snapshots |->
                                 SnapshotBid(FuelCosts(fuel_raw), unit, hr, s)])),
                all_caps)

\* default_heat_rates[technology] raises KeyError after the generator was
\* added: the build stops.
AbortDispatchable ==
    /\ InLoop
    /\ generators[unit_idx].technology \in DispatchableTechs
    /\ ResolveHeatRate(generators, generators[unit_idx]) = KeyError
    /\ components' =
          Append(components,
                 Component("Generator",
                           TECHNOLOGY_MAP(generators[unit_idx].technology),
                           KeyError))
    /\ bpc' = "error"
    /\ UNCHANGED <<generators, fuel_raw, cap_profile, unit_idx, all_bids,
                   all_caps, fallback_log, vom, chunkVars, dataVars>>

\* import_series_from_dataframe of the bids and of the availabilities,
\* consistency_check, return (lines 468-475).
ImportSeries ==
    /\ bpc = "loop"
    /\ unit_idx > Len(generators)
    /\ all_bids # <<>>
    /\ all_caps # <<>>
    /\ bpc' = "done"
    /\ UNCHANGED <<generators, fuel_raw, cap_profile, unit_idx, components,
                   all_bids, all_caps, fallback_log, vom, chunkVars, dataVars>>

\* pd.concat of an empty list raises ValueError.
ImportFail ==
    /\ bpc = "loop"
    /\ unit_idx > Len(generators)
    /\ (all_bids = <<>> \/ all_caps = <<>>)
    /\ bpc' = "error"
    /\ UNCHANGED <<generators, fuel_raw, cap_profile, unit_idx, components,
                   all_bids, all_caps, fallback_log, vom, chunkVars, dataVars>>

NextBid ==
    \/ AddStorage
    \/ AddSolar
    \/ AddWind
    \/ SkipHydro
    \/ AddNuclear
    \/ AddLandfill
    \/ AddDispatchable
    \/ AbortDispatchable
    \/ ImportSeries
    \/ ImportFail

SpecBid == InitBid /\ [][NextBid]_vars
SpecEcon == InitEcon /\ [][NextBid]_vars

(***************************************************************************)
(* The series of the assembled network.                                    *)
(***************************************************************************)
\* The generators of the network.
GeneratorUnits ==
    { components[k].unit :
        k \in { j \in DOMAIN components : components[j].kind = "Generator" } }

\* generators_t.marginal_cost after the import: the imported column, or
\* the static default 0 of a generator without one.
MarginalCost(u, s) ==
    IF \E k \in DOMAIN all_bids : all_bids[k].unit = u
    THEN all_bids[CHOOSE k \in DOMAIN all_bids : all_bids[k].unit = u].series[s]
    ELSE Num(0)

\* p_max_pu after the import: the imported column, or the static default 1
\* of a generator without one.
Availability(u, s) ==
    IF \E k \in DOMAIN all_caps : all_caps[k].unit = u
    THEN all_caps[CHOOSE k \in DOMAIN all_caps : all_caps[k].unit = u].series[s]
    ELSE Num(100)

\* The dispatchable generators added so far whose heat rate was resolved.
DispatchableUnits ==
    { k \in DOMAIN components :
        /\ components[k].kind = "Generator"
        /\ generators[components[k].unit].technology \in DispatchableTechs
        /\ components[k].heat_rate # KeyError }

(***************************************************************************)
(* Properties of the Bid Builder.                                          *)
(***************************************************************************)

\* C7 (operating-window gating): in the built network every generator has
\* availability exactly 0 at every snapshot of a month outside its operating
\* window, whether or not a fuel price exists; inside the window the
\* availability is the one of its technology class (the fleet capacity
\* factor for solar and wind, 1 otherwise).
C7_OperatingWindowGating ==
    bpc = "done" =>
        \A u \in GeneratorUnits, s \in Snapshots :
            IF InWindow(generators[u], SnapMonth(s))
            THEN Availability(u, s) =
                   (CASE generators[u].technology = "Solar Photovoltaic" ->
                            RenewableGen(cap_profile, "SOLAR", s)
                      [] generators[u].technology = "Onshore Wind Turbine" ->
                            RenewableGen(cap_profile, "WIND", s)
                      [] OTHER -> Num(100))
            ELSE Availability(u, s) = Num(0)

\* C8 (missing fuel price fallback): when the fuel price table has no value
\* for (month, fuel) of a dispatchable unit operating in that month, the bid
\* of that month is not zero and the substitution is in the audit log with
\* the unit and the month.
C8_MissingFuelPriceFallback ==
    bpc = "done" =>
        \A k \in DispatchableUnits, s \in Snapshots :
            LET u == components[k].unit
                price == PriceLookup(FuelCosts(fuel_raw), SnapMonth(s),
                                     generators[u].energy_source_code)
            IN  (InWindow(generators[u], SnapMonth(s)) /\ price.k # "num") =>
                    /\ MarginalCost(u, s) # Num(0)
                    /\ [unit |-> u, month |-> SnapMonth(s)] \in fallback_log

\* C9 (dispatchable bid formula): for a dispatchable unit and a month inside
\* its operating window with a fuel price, the bid of every snapshot of the
\* month is heat_rate x fuel_price + variable operating cost, with the
\* unit's resolved heat rate.
C9_DispatchableBidFormula ==
    bpc = "done" =>
        \A k \in DispatchableUnits, s \in Snapshots :
            LET u == components[k].unit
                price == PriceLookup(FuelCosts(fuel_raw), SnapMonth(s),
                                     generators[u].energy_source_code)
            IN  (InWindow(generators[u], SnapMonth(s)) /\ price.k = "num") =>
                    MarginalCost(u, s) =
                        FAdd(FMul(components[k].heat_rate, price), Num(vom))

\* C10 (heat-rate tiers strictly ordered): a dispatchable unit with a plant
\* heat rate uses it; without one it uses the technology average when there
\* is one, and the hardcoded constant only when there is none.
C10_HeatRateTiersOrdered ==
    \A k \in DispatchableUnits :
        LET unit == generators[components[k].unit]
            mean == TechnologyMean(generators, unit.technology)
            used == components[k].heat_rate
        IN  /\ ~ IsNaN(unit.heatRate) => used = unit.heatRate
            /\ (IsNaN(unit.heatRate) /\ ~ IsNaN(mean)) => used = mean
            /\ (IsNaN(unit.heatRate) /\ IsNaN(mean)) =>
                  used = Num(HardcodedHeatRate(unit.technology))

\* The series of unit u in a list of series.
HasSeries(list, u) == \E k \in DOMAIN list : list[k].unit = u

\* C11 (heat-rate resolution is total or fatal): every dispatchable unit
\* that reaches bid construction has exactly one heat-rate value, neither
\* NaN nor absent, and its bids are built; a unit without a plant heat rate
\* whose technology has neither an average nor a hardcoded constant stops
\* the build with an error and gets no bid.
C11_HeatRateTotalOrFatal ==
    /\ \A k \in DOMAIN components :
          (/\ components[k].kind = "Generator"
           /\ generators[components[k].unit].technology \in DispatchableTechs) =>
            LET u == components[k].unit
                unit == generators[u]
                noFallback ==
                    /\ IsNaN(unit.heatRate)
                    /\ IsNaN(TechnologyMean(generators, unit.technology))
                    /\ unit.technology \notin HardcodedTechs
            IN  IF noFallback
                THEN /\ bpc = "error"
                     /\ unit_idx = u
                     /\ ~ HasSeries(all_bids, u)
                ELSE /\ components[k].heat_rate.k \in {"num", "inf"}
                     /\ HasSeries(all_bids, u)
                     /\ Cardinality({ j \in DOMAIN components :
                                        components[j].unit = u }) = 1
    /\ bpc = "done" =>
          \A u \in DOMAIN generators :
              generators[u].technology \in DispatchableTechs =>
                  \E k \in DispatchableUnits : components[k].unit = u

C11_Witness ==
    /\ bpc = "error"
    /\ unit_idx = 2
    /\ HasSeries(all_bids, 1)
    /\ \E k \in DOMAIN components :
          /\ components[k].unit = 2
          /\ components[k].heat_rate = KeyError

\* C12 (non-finite heat rate substitution): a dispatchable unit whose own
\* heat rate is missing, NaN or infinite gets the technology average, every
\* bid is computed from a finite heat rate, also the bids of the units
\* built beside it.
C12_NonFiniteHeatRateSubstitution ==
    \A k \in DispatchableUnits :
        LET unit == generators[components[k].unit]
            mean == TechnologyMean(generators, unit.technology)
        IN  /\ components[k].heat_rate.k = "num"
            /\ (unit.heatRate.k # "num" /\ mean.k = "num") =>
                  components[k].heat_rate = mean

\* C15 (variable-renewable units): in the built network every solar, wind
\* and hydro unit has a bid that is the same non-positive value at every
\* snapshot and an availability series that is the capacity factor of its
\* class, identical for any two units of the class.
C15_VariableRenewableUnits ==
    bpc = "done" =>
        \A u \in DOMAIN generators :
            generators[u].technology \in RenewableTechs =>
              /\ u \in GeneratorUnits
              /\ HasSeries(all_bids, u)
              /\ HasSeries(all_caps, u)
              /\ \A s \in Snapshots :
                    /\ MarginalCost(u, s) = MarginalCost(u, 1)
                    /\ MarginalCost(u, s).k = "num"
                    /\ MarginalCost(u, s).v < 0
              /\ \A w \in DOMAIN generators :
                    generators[w].technology = generators[u].technology =>
                        \A s \in Snapshots :
                            Availability(w, s) = Availability(u, s)

\* C16 (bids constant within a month): for every unit with a bid series
\* and any two snapshots of the same calendar month, the bid is the same.
C16_BidsConstantWithinMonth ==
    \A k \in DOMAIN all_bids :
        \A s1 \in Snapshots, s2 \in Snapshots :
            SnapMonth(s1) = SnapMonth(s2) =>
                all_bids[k].series[s1] = all_bids[k].series[s2]

C16_Witness ==
    /\ bpc = "done"
    /\ \E k \in DOMAIN all_bids :
          /\ all_bids[k].series[1].k = "num"
          /\ all_bids[k].series[1].v > 0
          /\ all_bids[k].series[2] = all_bids[k].series[1]
          /\ all_bids[k].series[3].k = "num"
          /\ all_bids[k].series[3] # all_bids[k].series[1]

(***************************************************************************)
(* Renewable utilisation (src/ercot_data.py): get_ercot_solar_wind_data    *)
(* and the hydro column of get_all_ercot_data.  Hours are numbered         *)
(* 1 .. MaxHours; utilisation is held in hundredths (1.0 is 100).          *)
(***************************************************************************)
MaxHours == 4

Hours == 1 .. MaxHours

\* A sheet has no row for the hour.
Absent == [k |-> "absent", v |-> 0]

\* Utilisation readings of the sheets: 0.0, 0.6 and 1.2 for solar (the
\* values are multiples of 12 so that every interpolated value is a whole
\* number of hundredths), 0.48 for wind.
SolarReadings == {Num(0), Num(60), Num(120)}
WindReadings == {Num(48)}

\* The sheets: a reading or no row for every hour, at least one row in all.
Sheets(readings) == [Hours -> readings \cup {Absent}]

MaxOf(S) == CHOOSE x \in S : \A y \in S : y <= x
MinOf(S) == CHOOSE x \in S : \A y \in S : x <= y

\* The hours of a set in increasing order (sort_index).
RECURSIVE SortedHours(_)
SortedHours(S) ==
    IF S = {} THEN <<>>
    ELSE <<MinOf(S)>> \o SortedHours(S \ {MinOf(S)})

\* The value of a sheet at an hour of the table: NaN where it has no row.
CellOf(sheet, h) == IF sheet[h] = Absent THEN NaN ELSE sheet[h]

\* pd.concat([solar, wind], axis=1) and sort_index: a row for every hour
\* either sheet has a row for.
ConcatColumns(solar, wind) ==
    LET idx == SortedHours({ h \in Hours :
                               solar[h] # Absent \/ wind[h] # Absent })
    IN  [index |-> idx,
         solar |-> [i \in DOMAIN idx |-> CellOf(solar, idx[i])],
         wind |-> [i \in DOMAIN idx |-> CellOf(wind, idx[i])],
         hydro |-> <<>>]

\* Series.interpolate() with its defaults (linear, limit_direction forward,
\* no limit_area): a missing point between two valid points is on the line
\* between them, a missing point after the last valid point takes the last
\* valid value, a missing point before the first valid point stays missing.
InterpolateRolling(col) ==
    [i \in DOMAIN col |->
        IF i > 1 /\ ~ IsNaN(col[i]) /\ ~ IsNaN(col[i - 1])
        THEN Num((col[i - 1].v + col[i].v) \div 2)
        ELSE col[i]]
Interpolate(col) ==
    [i \in DOMAIN col |->
        IF ~ IsNaN(col[i]) THEN col[i]
        ELSE LET before == { j \in 1 .. i - 1 : ~ IsNaN(col[j]) }
                 after == { j \in i + 1 .. Len(col) : ~ IsNaN(col[j]) }
             IN  IF before = {} THEN NaN
                 ELSE IF after = {} THEN col[MaxOf(before)]
                 ELSE LET a == MaxOf(before)
                          b == MinOf(after)
                      IN  Num(col[a].v
                               + ((col[b].v - col[a].v) * (i - a)) \div (b - a))]

\* resample("H") before interpolation: the hourly grid from the first to
\* the last hour of the index, NaN in the hours without a row.
GridIndex(tbl) ==
    [i \in 1 .. tbl.index[Len(tbl.index)] - tbl.index[1] + 1 |->
        tbl.index[1] + i - 1]

GridColumn(tbl, col) ==
    [i \in DOMAIN GridIndex(tbl) |->
        IF \E j \in DOMAIN tbl.index : tbl.index[j] = GridIndex(tbl)[i]
        THEN col[CHOOSE j \in DOMAIN tbl.index : tbl.index[j] = GridIndex(tbl)[i]]
        ELSE NaN]

\* combined.resample("H").interpolate()
ResampleInterpolate(tbl) ==
    [index |-> GridIndex(tbl),
     solar |-> Interpolate(GridColumn(tbl, tbl.solar)),
     wind |-> Interpolate(GridColumn(tbl, tbl.wind)),
     hydro |-> <<>>]

\* fuel_mix["hydro"] / fuel_mix["hydro"].max(), at one hour.
HydroFactor(mix, h) ==
    LET top == MaxOf({ mix[x] : x \in DOMAIN mix })
    IN  IF top = 0 THEN NaN ELSE Num((mix[h] * 100) \div top)

\* ERCOTRenewableData: Field(ge=0, le=1) of the three columns.
ERCOTRenewableData(x) == x.k = "num" /\ 0 <= x.v /\ x.v <= 100

\* The sheets and the fuel mix are read.
InitRenew ==
    /\ solar_raw \in Sheets(SolarReadings)
    /\ wind_raw \in Sheets(WindReadings)
    /\ \E h \in Hours : solar_raw[h] # Absent \/ wind_raw[h] # Absent
    /\ hydro_mix \in { [h \in Hours |-> 0], [h \in Hours |-> 20 * h] }
    /\ rpc = "read"
    /\ combined = <<>>
    /\ ChunkIdle
    /\ BidIdle
    /\ JoinIdle
    /\ IoIdle

\* pd.concat of the two series and sort_index (lines 115-118).
ConcatSort ==
    /\ rpc = "read"
    /\ combined' = ConcatColumns(solar_raw, wind_raw)
    /\ rpc' = "concat"
    /\ UNCHANGED <<solar_raw, wind_raw, hydro_mix, chunkVars, bidVars, joinVars,
                   ioVars>>

\* resample("H").interpolate() (line 119).
ResampleStep ==
    /\ rpc = "concat"
    /\ combined' = ResampleInterpolate(combined)
    /\ rpc' = "resampled"
    /\ UNCHANGED <<solar_raw, wind_raw, hydro_mix, chunkVars, bidVars, joinVars,
                   ioVars>>

\* The rows of the requested years, without the first one (lines 120-121);
\* every hour of the model is in a requested year.
TrimFirst ==
    /\ rpc = "resampled"
    /\ combined' = [index |-> Tail(combined.index),
                    solar |-> Tail(combined.solar),
                    wind |-> Tail(combined.wind),
                    hydro |-> <<>>]
    /\ rpc' = "trimmed"
    /\ UNCHANGED <<solar_raw, wind_raw, hydro_mix, chunkVars, bidVars, joinVars,
                   ioVars>>

\* renewable["Conventional Hydroelectric"] = hydro / hydro.max(), aligned
\* on the index (line 184); the table is returned.
AddHydro ==
    /\ rpc = "trimmed"
    /\ combined' = [combined EXCEPT
          !.hydro = [i \in DOMAIN combined.index |->
                        HydroFactor(hydro_mix, combined.index[i])]]
    /\ rpc' = "done"
    /\ UNCHANGED <<solar_raw, wind_raw, hydro_mix, chunkVars, bidVars, joinVars,
                   ioVars>>

NextRenew ==
    \/ ConcatSort
    \/ ResampleStep
    \/ TrimFirst
    \/ AddHydro

SpecRenew == InitRenew /\ [][NextRenew]_vars

\* The columns of the table, and the table of the sheets before
\* interpolation.
Columns == {"solar", "wind"}
RawGrid(c) ==
    LET tbl == ConcatColumns(solar_raw, wind_raw)
    IN  GridColumn(tbl, IF c = "solar" THEN tbl.solar ELSE tbl.wind)
ColumnOf(c) == IF c = "solar" THEN combined.solar ELSE combined.wind

\* C18 (capacity-factor range): every value of the table handed on, for
\* solar, wind and hydro at every row, is a number in [0, 1].
C18_CapacityFactorRange ==
    rpc = "done" =>
        \A i \in DOMAIN combined.index :
            /\ ERCOTRenewableData(combined.solar[i])
            /\ ERCOTRenewableData(combined.wind[i])
            /\ ERCOTRenewableData(combined.hydro[i])

\* C19 (interpolation never extrapolates): after gap filling, a point that
\* was missing before the first valid value or after the last valid value
\* of its series is still missing; a missing point between two valid
\* values is filled and a valid point keeps its value.
C19_InterpolationBounded ==
    rpc = "resampled" =>
        \A c \in Columns :
            LET raw == RawGrid(c)
                out == ColumnOf(c)
                valid == { j \in DOMAIN raw : ~ IsNaN(raw[j]) }
            IN  /\ Len(out) = Len(raw)
                /\ \A i \in DOMAIN raw :
                      IF i \in valid THEN out[i] = raw[i]
                      ELSE IF (\E a \in valid : a < i) /\ (\E b \in valid : b > i)
                           THEN ~ IsNaN(out[i])
                           ELSE IsNaN(out[i])

FuelCostsInterpolated(raw) ==
    LET fp == FuelCosts(raw)
        column(f) == [mth \in 1 .. Cardinality(Months) |-> fp.cell[<<mth, f>>]]
    IN  [rows |-> Months,
         cols |-> fp.cols,
         cell |-> [c \in DOMAIN raw |->
                     IF c[2] \in fp.cols
                     THEN Interpolate(column(c[2]))[c[1]]
                     ELSE NaN]]

\* C17 (fuel-price sparsity): a zero reading is dropped and handled as a
\* missing entry: the price table is the one built from the readings with
\* the zero readings removed, no entry of it is 0, and no bid is computed
\* from a price of 0; the same holds of the interpolated monthly table.
ZerosRemoved(raw) == [c \in DOMAIN raw |-> IF raw[c] = 0 THEN -1 ELSE raw[c]]

Counties == {"Bexar", "Harris"}
PlantIds == {1, 2}

\* nameplate-capacity-mw as the registry reports it.
CapacityTexts == {"5", "-5", "NA"}

\* pd.to_numeric(errors="coerce") of a capacity text.
ToNumeric(text) ==
    CASE text = "5" -> Num(5)
      [] text = "-5" -> Num(0 - 5)
      [] OTHER -> NaN

\* A missing weather_zone after a left merge.
NoZone == "nan"

\* A row of the registry for one period.
RegistryRow(plant, gen, county, cap) ==
    [plantid |-> plant, generatorid |-> gen, county |-> county,
     capacity |-> cap]

\* The sub-sequences of a sequence of rows, in its order.
RECURSIVE SubSeqs(_)
SubSeqs(s) ==
    IF s = <<>> THEN { <<>> }
    ELSE LET rest == SubSeqs(Tail(s))
         IN  rest \cup { <<Head(s)>> \o r : r \in rest }

\* The rows the county table and the plant heat-rate table may hold.
CountyRows ==
    << [county |-> "Bexar", weather_zone |-> "SOUTH CENTRAL"],
       [county |-> "Bexar", weather_zone |-> "SOUTH"],
       [county |-> "Harris", weather_zone |-> "COAST"] >>
HeatRateRows ==
    << [plantCode |-> 1, heatRate |-> Num(6000)],
       [plantCode |-> 1, heatRate |-> Num(12000)],
       [plantCode |-> 2, heatRate |-> Inf] >>

RECURSIVE Flatten(_)
Flatten(ss) == IF ss = <<>> THEN <<>> ELSE Head(ss) \o Flatten(Tail(ss))

\* units.merge(county_to_zone, how="left", on="county"): a row for every
\* matching row of the county table, one row without zone when none matches.
MergeZone(rows, table) ==
    Flatten([i \in DOMAIN rows |->
        LET hit == SelectSeq(table, LAMBDA r : r.county = rows[i].county)
        IN  IF hit = <<>>
            THEN << [plantid |-> rows[i].plantid,
                     generatorid |-> rows[i].generatorid,
                     county |-> rows[i].county,
                     capacity |-> rows[i].capacity,
                     weather_zone |-> NoZone] >>
            ELSE [j \in DOMAIN hit |->
                    [plantid |-> rows[i].plantid,
                     generatorid |-> rows[i].generatorid,
                     county |-> rows[i].county,
                     capacity |-> rows[i].capacity,
                     weather_zone |-> hit[j].weather_zone]]])

\* units.merge(heatrates, left_on="plantid", right_on="plantCode",
\* how="left")
MergeHeatRates(rows, table) ==
    Flatten([i \in DOMAIN rows |->
        LET hit == SelectSeq(table, LAMBDA r : r.plantCode = rows[i].plantid)
        IN  IF hit = <<>>
            THEN << [plantid |-> rows[i].plantid,
                     generatorid |-> rows[i].generatorid,
                     county |-> rows[i].county,
                     capacity |-> rows[i].capacity,
                     weather_zone |-> rows[i].weather_zone,
                     heatRate |-> NaN] >>
            ELSE [j \in DOMAIN hit |->
                    [plantid |-> rows[i].plantid,
                     generatorid |-> rows[i].generatorid,
                     county |-> rows[i].county,
                     capacity |-> rows[i].capacity,
                     weather_zone |-> rows[i].weather_zone,
                     heatRate |-> hit[j].heatRate]]])

\* generators["nameplate-capacity-mw"] = pd.to_numeric(..., errors="coerce")
CoerceCapacity(rows) ==
    [i \in DOMAIN rows |-> [rows[i] EXCEPT !.capacity = ToNumeric(@)]]

\* The registry of the last period: one row per unit, one or two units.
InitJoin ==
    /\ \E c1 \in Counties, c2 \in Counties, p2 \in PlantIds,
          t1 \in CapacityTexts, t2 \in CapacityTexts :
          \/ units_raw = << RegistryRow(1, "G1", c1, t1) >>
          \/ units_raw = << RegistryRow(1, "G1", c1, t1),
                            RegistryRow(p2, "G2", c2, t2) >>
    /\ county_to_zone \in SubSeqs(CountyRows)
    /\ heatrates \in SubSeqs(HeatRateRows)
    /\ jpc = "units"
    /\ units = units_raw
    /\ ChunkIdle
    /\ BidIdle
    /\ RenewIdle
    /\ IoIdle

\* line 291
JoinZones ==
    /\ jpc = "units"
    /\ units' = MergeZone(units, county_to_zone)
    /\ jpc' = "zoned"
    /\ UNCHANGED <<units_raw, county_to_zone, heatrates, chunkVars, bidVars,
                   renewVars, ioVars>>

\* lines 292-298
JoinHeatRates ==
    /\ jpc = "zoned"
    /\ units' = MergeHeatRates(units, heatrates)
    /\ jpc' = "rated"
    /\ UNCHANGED <<units_raw, county_to_zone, heatrates, chunkVars, bidVars,
                   renewVars, ioVars>>

\* lines 304-308
CoerceStep ==
    /\ jpc = "rated"
    /\ units' = CoerceCapacity(units)
    /\ jpc' = "done"
    /\ UNCHANGED <<units_raw, county_to_zone, heatrates, chunkVars, bidVars,
                   renewVars, ioVars>>

NextJoin ==
    \/ JoinZones
    \/ JoinHeatRates
    \/ CoerceStep

SpecJoin == InitJoin /\ [][NextJoin]_vars

\* The counties of the lookup table, and the rows of one unit identity.
MappedCounties == { county_to_zone[i].county : i \in DOMAIN county_to_zone }
RowsOf(u) ==
    { i \in DOMAIN units :
        /\ units[i].plantid = u.plantid
        /\ units[i].generatorid = u.generatorid }

\* C13 (unmapped county is a configuration error): when the county of a
\* unit has no entry in the county table the build does not go past the
\* zone join, and no row of the unit table has a missing zone.
C13_UnmappedCountyFatal ==
    /\ (\E i \in DOMAIN units_raw : units_raw[i].county \notin MappedCounties)
          => jpc \in {"units", "error"}
    /\ jpc \in {"zoned", "rated", "done"} =>
          \A i \in DOMAIN units : units[i].weather_zone # NoZone

\* C14 (reconciled unit table): after the joins every unit identity is in
\* exactly one row with exactly one zone, and its capacity is missing or
\* not negative, whatever the number of matching rows of the two tables.
C14_UnitTableInvariant ==
    jpc = "done" =>
        \A k \in DOMAIN units_raw :
            /\ Cardinality(RowsOf(units_raw[k])) = 1
            /\ Cardinality({ units[i].weather_zone :
                               i \in RowsOf(units_raw[k]) }) = 1
            /\ \A i \in RowsOf(units_raw[k]) :
                  \/ IsNaN(units[i].capacity)
                  \/ units[i].capacity.v >= 0


(***************************************************************************)
(* Further properties of the assembled network.                            *)
(***************************************************************************)

\* C26 (every registry unit is represented): in the built network every
\* row of the unit table has exactly one component, a StorageUnit for
\* batteries and flywheels and a Generator otherwise, and every generator
\* has its marginal-cost series; no unit, hydro included, is left out.
C26_EveryUnitRepresented ==
    bpc = "done" =>
        \A u \in DOMAIN generators :
            LET mine == { k \in DOMAIN components : components[k].unit = u }
            IN  /\ Cardinality(mine) = 1
                /\ \A k \in mine :
                      IF generators[u].technology \in StorageTechs
                      THEN components[k].kind = "StorageUnit"
                      ELSE /\ components[k].kind = "Generator"
                           /\ HasSeries(all_bids, u)

\* C27 (every bid is a finite number): in the built network the marginal
\* cost of every generator at every snapshot is a number, neither missing
\* nor NaN, also when the price table has the month but no value for the
\* unit's fuel, or has no column for the unit's fuel.
C27_BidsFinite ==
    bpc = "done" =>
        \A u \in GeneratorUnits, s \in Snapshots :
            MarginalCost(u, s).k = "num"

(***************************************************************************)
(* analyze_network (src/main.py, lines 478-480): build_network, then        *)
(* network.optimize.  The registries here carry the weather_zone column as *)
(* build_generators leaves it: a zone, or no zone for an unmapped county.   *)
(***************************************************************************)
\* The buses build_network adds, one per key of WEATHER_ZONES.
WEATHER_ZONES ==
    {"FAR WEST", "NORTH", "WEST", "NORTH CENTRAL", "EAST", "SOUTH CENTRAL",
     "SOUTH", "COAST"}

\* Registry rows over the whole horizon with either outcome of the zone join.
RowsWithZone ==
    { [r EXCEPT !.weather_zone = z] :
        r \in RowsAlwaysOperating, z \in {"COAST", NoZone} }

InitSubmit ==
    /\ generators \in Registries(RowsWithZone, MaxUnits)
    /\ fuel_raw \in RawTables(FALSE)
    /\ cap_profile = 1
    /\ vom = 0
    /\ BuildStart
    /\ ChunkIdle
    /\ DataIdle

\* network.optimize(solver_name="highs") on the network build_network
\* returned.  consistency_check (line 474) reports what it finds to the log
\* and returns None, and build_network returns the network whatever it found.
Optimize ==
    /\ bpc = "done"
    /\ bpc' = "submitted"
    /\ UNCHANGED <<generators, fuel_raw, cap_profile, unit_idx, components,
                   all_bids, all_caps, fallback_log, vom, chunkVars, dataVars>>

NextSubmit ==
    \/ NextBid
    \/ Optimize

SpecSubmit == InitSubmit /\ [][NextSubmit]_vars

\* C22 (pre-flight consistency check): a network handed to the optimizer has
\* every generator and storage unit on an existing bus and every bid and
\* availability series indexed by exactly the snapshots; a network with a
\* dangling bus reference or a misaligned series is never submitted.
C22_PreflightConsistency ==
    bpc = "submitted" =>
        /\ \A k \in DOMAIN components : components[k].bus \in WEATHER_ZONES
        /\ \A i \in DOMAIN all_bids : DOMAIN all_bids[i].series = Snapshots
        /\ \A i \in DOMAIN all_caps : DOMAIN all_caps[i].series = Snapshots

(***************************************************************************)
(* The load table: get_eroct_load_data_annual (src/ercot_data.py, lines    *)
(* 124-145) and the same steps at the head of build_network (src/main.py,  *)
(* lines 312-323).  A row is known by its "Hour Ending" label; the zone    *)
(* columns ride along and none of the steps reads them.  Time stamps are   *)
(* counted in hours: 24 * day + hour.                                      *)
(***************************************************************************)
MaxDays == 2

Days == 1 .. MaxDays

\* The workbook labels the hours of a day by their end, "01:00" to "24:00".
LabelHours == {1, 2, 24}

\* "<day> <hh>:00", with " DST" appended for the repeated hour.
Label(day, hh, dst) == [day |-> day, hh |-> hh, dst |-> dst]

Labels ==
    { Label(d, h, FALSE) : d \in Days, h \in LabelHours }
    \cup { Label(d, 2, TRUE) : d \in Days }

\* The order of the rows in the workbook: by day, by hour, the repeated hour
\* after its first occurrence.
LabelBefore(a, b) ==
    \/ a.day < b.day
    \/ a.day = b.day /\ a.hh < b.hh
    \/ a.day = b.day /\ a.hh = b.hh /\ ~a.dst /\ b.dst

RECURSIVE InFileOrder(_)
InFileOrder(S) ==
    IF S = {} THEN <<>>
    ELSE LET first == CHOOSE a \in S : \A b \in S \ {a} : LabelBefore(a, b)
         IN  <<first>> \o InFileOrder(S \ {first})

\* Workbooks of at least one row, every label at most once.
Workbooks == { InFileOrder(S) : S \in (SUBSET Labels) \ {{}} }

\* pd.to_datetime of a label.
Stamp(day, hh) == 24 * day + hh

\* lambda x: x (line 140 with the shift left out)
SameDayAtMidnight(x) == x

\* lambda x: x + pd.Timedelta(1, "D") if x.hour == 0 else x
NextDayAtMidnight(x) == IF x % 24 = 0 THEN x + 24 ELSE x

notLoad == <<chunkVars, bidVars, renewVars, joinVars, fetchVars, scenVars>>

\* pd.read_excel and the renaming of the columns; src is the row's position
\* in the workbook.
InitLoad ==
    /\ load_raw \in Workbooks
    /\ load_fn \in {"annual", "build"}
    /\ lpc = "read"
    /\ load_data = [i \in DOMAIN load_raw |->
                        [src |-> i, label |-> load_raw[i]]]
    /\ network_snapshots = <<>>
    /\ ChunkIdle
    /\ BidIdle
    /\ RenewIdle
    /\ JoinIdle
    /\ FetchIdle
    /\ ScenarioIdle

IsKeptRow(r) == ~r.label.dst

\* load_data[~load_data["Hour Ending"].str.contains("DST", na=False)]
DropDST ==
    /\ lpc = "read"
    /\ load_data' = SelectSeq(load_data, IsKeptRow)
    /\ lpc' = "filtered"
    /\ UNCHANGED <<load_raw, load_fn, network_snapshots, notLoad>>

\* .str.replace("24:00", "00:00")
ReplaceLabel ==
    /\ lpc = "filtered"
    /\ load_data' =
          [i \in DOMAIN load_data |->
              [load_data[i] EXCEPT
                  !.label.hh = IF @ = 24 THEN 0 ELSE @]]
    /\ lpc' = "replaced"
    /\ UNCHANGED <<load_raw, load_fn, network_snapshots, notLoad>>

\* pd.to_datetime and set_index("Hour Ending")
ToDatetime ==
    /\ lpc = "replaced"
    /\ load_data' =
          [i \in DOMAIN load_data |->
              [src |-> load_data[i].src,
               index |-> Stamp(load_data[i].label.day,
                               load_data[i].label.hh)]]
    /\ lpc' = "indexed"
    /\ UNCHANGED <<load_raw, load_fn, network_snapshots, notLoad>>

\* load_data.index.map(...)
ShiftMidnight ==
    /\ lpc = "indexed"
    /\ load_data' =
          [i \in DOMAIN load_data |->
              [load_data[i] EXCEPT !.index = NextDayAtMidnight(@)]]
    /\ lpc' = "shifted"
    /\ UNCHANGED <<load_raw, load_fn, network_snapshots, notLoad>>

\* The hourly grid from the first to the last time stamp; a row the table
\* has keeps its place, a row it lacks is filled in (src 0).
LoadGrid(tbl) ==
    IF tbl = <<>> THEN <<>>
    ELSE LET stamps == { tbl[i].index : i \in DOMAIN tbl }
             lo == MinOf(stamps)
             hi == MaxOf(stamps)
         IN  [k \in 1 .. hi - lo + 1 |->
                 IF \E i \in DOMAIN tbl : tbl[i].index = lo + k - 1
                 THEN tbl[CHOOSE i \in DOMAIN tbl : tbl[i].index = lo + k - 1]
                 ELSE [src |-> 0, index |-> lo + k - 1]]

\* load_data.resample("H").interpolate(); return (ercot_data.py, 144-145)
ResampleLoad ==
    /\ lpc = "shifted"
    /\ load_fn = "annual"
    /\ load_data' = LoadGrid(load_data)
    /\ lpc' = "done"
    /\ UNCHANGED <<load_raw, load_fn, network_snapshots, notLoad>>

\* network.snapshots = load_data.head(n_shots).index (main.py, 322)
SetSnapshots ==
    /\ lpc = "shifted"
    /\ load_fn = "build"
    /\ \E n_shots \in 1 .. MaxShots :
          network_snapshots' =
              [i \in 1 .. Min(n_shots, Len(load_data)) |-> load_data[i].index]
    /\ lpc' = "done"
    /\ UNCHANGED <<load_raw, load_fn, load_data, notLoad>>

NextLoad ==
    \/ DropDST
    \/ ReplaceLabel
    \/ ToDatetime
    \/ ShiftMidnight
    \/ ResampleLoad
    \/ SetSnapshots

SpecLoad == InitLoad /\ [][NextLoad]_vars

\* The rows of the normalised table that come from row i of the workbook.
LoadRowsOf(i) == { k \in DOMAIN load_data : load_data[k].src = i }

\* C21 (load-table calendar normalization): in the normalised load table no
\* row marked as the daylight-saving-time hour is left, the row labelled
\* 24:00 of day D has the time stamp 00:00 of day D+1, every other row has
\* the day and hour of its label, and no time stamp occurs twice.
C21_CalendarNormalization ==
    lpc = "done" =>
        /\ \A i \in DOMAIN load_raw :
              IF load_raw[i].dst
              THEN LoadRowsOf(i) = {}
              ELSE /\ Cardinality(LoadRowsOf(i)) = 1
                   /\ \A k \in LoadRowsOf(i) :
                         load_data[k].index =
                             IF load_raw[i].hh = 24
                             THEN Stamp(load_raw[i].day + 1, 0)
                             ELSE Stamp(load_raw[i].day, load_raw[i].hh)
        /\ \A j \in DOMAIN load_data, k \in DOMAIN load_data :
              j # k => load_data[j].index # load_data[k].index

\* A workbook with a daylight-saving row, a 24:00 row and another row has
\* been normalised.
C21_Witness ==
    /\ lpc = "done"
    /\ \E i \in DOMAIN load_raw : load_raw[i].dst
    /\ \E i \in DOMAIN load_raw : load_raw[i].hh = 24
    /\ \E i \in DOMAIN load_raw : ~load_raw[i].dst /\ load_raw[i].hh # 24
    /\ Len(load_data) >= 2

(***************************************************************************)
(* Paged retrieval from the EIA API: the while loop of get_eia_unit_data   *)
(* (src/eia_data.py, lines 103-125; src/scripts/eia_data.py, lines 97-129) *)
(* and of get_eia_unit_generation (src/eia_data.py, lines 160-185).  A     *)
(* page is known by the offset it was requested with.                      *)
(***************************************************************************)
MaxPages == 3

\* offset += 5000
PageSize == 5000

\* The totals a response may report: no record, a part of a page, whole
\* pages.
Totals ==
    {0} \cup { (k - 1) * PageSize + 1 : k \in 1 .. MaxPages }
        \cup { k * PageSize : k \in 1 .. MaxPages }

\* r.status_code: success, rate limit, any other status.
Statuses == {200, 409, 500}

\* A response: its status, whether r.json() can decode its body, and the
\* total a success reports.
Responses ==
    { [status |-> 200, json |-> TRUE, total |-> t] : t \in Totals }
    \cup { [status |-> 200, json |-> FALSE, total |-> 0] }
    \cup { [status |-> s, json |-> j, total |-> 0] :
             s \in Statuses \ {200}, j \in BOOLEAN }

notFetch == <<chunkVars, bidVars, renewVars, joinVars, loadVars, scenVars>>

InitFetch ==
    /\ fetch_fn \in {"get_eia_unit_data", "get_eia_unit_generation"}
    /\ offset = 0
    /\ total = 0
    /\ data = <<>>
    /\ fpc = "request"
    /\ response = <<>>
    /\ requested = 0
    /\ n_ok = 0
    /\ error = "none"
    /\ ChunkIdle
    /\ BidIdle
    /\ RenewIdle
    /\ JoinIdle
    /\ LoadIdle
    /\ ScenarioIdle

\* while offset == 0 or offset < total
LoopCondition == offset = 0 \/ offset < total

\* r = requests.get(url, headers={"x-params": build_params(..., offset)})
SendRequest ==
    /\ fpc = "request"
    /\ LoopCondition
    /\ response' \in Responses
    /\ requested' = offset
    /\ fpc' = "respond"
    /\ UNCHANGED <<fetch_fn, offset, total, data, n_ok, error, notFetch>>

\* r.json() of a body that is not JSON raises JSONDecodeError.
RaiseStep(exc) ==
    /\ fpc' = "raised"
    /\ error' = exc
    /\ UNCHANGED <<fetch_fn, offset, total, data, response, requested, n_ok,
                   notFetch>>

\* status 200: total, data.extend, offset += 5000
Handle200 ==
    /\ fpc = "respond"
    /\ response.status = 200
    /\ response.json
    /\ total' = response.total
    /\ data' = Append(data, requested)
    /\ offset' = offset + PageSize
    /\ n_ok' = n_ok + 1
    /\ fpc' = "request"
    /\ UNCHANGED <<fetch_fn, response, requested, error, notFetch>>

Handle200BadBody ==
    /\ fpc = "respond"
    /\ response.status = 200
    /\ ~response.json
    /\ RaiseStep("JSONDecodeError")

\* status 409: print("Waiting 5 Seconds Before Next Request", r.json())
Handle409 ==
    /\ fpc = "respond"
    /\ response.status = 409
    /\ response.json
    /\ fpc' = "sleep"
    /\ UNCHANGED <<fetch_fn, offset, total, data, response, requested, n_ok,
                   error, notFetch>>

Handle409BadBody ==
    /\ fpc = "respond"
    /\ response.status = 409
    /\ ~response.json
    /\ RaiseStep("JSONDecodeError")

\* sleep(5), back to the loop condition
Sleep ==
    /\ fpc = "sleep"
    /\ fpc' = "request"
    /\ UNCHANGED <<fetch_fn, offset, total, data, response, requested, n_ok,
                   error, notFetch>>

\* any other status: raise ConnectionError("Issue with request", r.json())
HandleOther ==
    /\ fpc = "respond"
    /\ response.status \notin {200, 409}
    /\ response.json
    /\ RaiseStep("ConnectionError")

HandleOtherBadBody ==
    /\ fpc = "respond"
    /\ response.status \notin {200, 409}
    /\ ~response.json
    /\ RaiseStep("JSONDecodeError")

\* pd.DataFrame(data).astype({"plantid": ...}) raises KeyError when the
\* table has no column plantid (get_eia_unit_data only): the only page is
\* the one of a total of 0 and holds no record.
AstypeFails == fetch_fn = "get_eia_unit_data" /\ Len(data) = 1 /\ total = 0

Return ==
    /\ fpc = "request"
    /\ ~LoopCondition
    /\ ~AstypeFails
    /\ fpc' = "returned"
    /\ UNCHANGED <<fetch_fn, offset, total, data, response, requested, n_ok,
                   error, notFetch>>

ReturnFail ==
    /\ fpc = "request"
    /\ ~LoopCondition
    /\ AstypeFails
    /\ RaiseStep("KeyError")

NextFetch ==
    \/ SendRequest
    \/ Handle200
    \/ Handle200BadBody
    \/ Handle409
    \/ Handle409BadBody
    \/ Sleep
    \/ HandleOther
    \/ HandleOtherBadBody
    \/ Return
    \/ ReturnFail

SpecFetch == InitFetch /\ [][NextFetch]_vars

\* The interpreter keeps running the function; the server answers every
\* request.
SpecFetchFair == SpecFetch /\ WF_vars(NextFetch)

\* C23 (retrieval does not block forever): every retrieval comes to an end,
\* by returning its table or by raising an error; no retrieval keeps
\* retrying without bound.
C23_RetrievalEnds == <>(fpc \in {"returned", "raised"})

\* C24 (pagination completeness): the accumulated records are the pages at
\* offsets 0, 5000, 10000, ... in this order, each once; a 409 response
\* leaves offset, total and the records as they are and the function goes on
\* to request the same offset again; the function returns only with offset
\* >= the last reported total, and when the total is 0 the loop ends after
\* exactly one successful request.
C24_PaginationComplete ==
    [][ /\ \A i \in DOMAIN data' : data'[i] = (i - 1) * PageSize
        /\ (fpc = "respond" /\ response.status = 409) =>
              /\ offset' = offset
              /\ total' = total
              /\ data' = data
              /\ fpc' # "raised"
        /\ (fpc = "request" /\ fpc' = "respond") => requested' = offset
        /\ fpc' = "returned" => offset' >= total'
        /\ (fpc = "request" /\ fpc' \in {"returned", "raised"} /\ total = 0)
              => n_ok = 1
      ]_vars

\* C25 (retrieval failure is fatal and returns nothing): a response whose
\* status is neither 200 nor 409 makes the function raise ConnectionError
\* at once, and after the raise nothing more happens: no request, no table.
C25_FailureIsConnectionError ==
    [][ /\ (fpc = "respond" /\ response.status \notin {200, 409}) =>
              /\ fpc' = "raised"
              /\ error' = "ConnectionError"
        /\ fpc # "raised"
      ]_vars

(***************************************************************************)
(* load_scenario and validate_dict (src/utils.py, lines 21-56) over the    *)
(* TypedDicts of src/scenario.py.  A value is written [t, f]: t is the     *)
(* name of type(value) and f, for a dict, maps its keys to their values.   *)
(***************************************************************************)
MaxDefects == 2

\* type(value) of the values a TOML file gives: strings, integers,
\* booleans and tables.
ValueTypes == {"str", "int", "bool", "dict"}

Leaf(t) == [t |-> t, f |-> <<>>]

Dict(f) == [t |-> "dict", f |-> f]

\* __annotations__ of the three TypedDicts, in the order of declaration.
SimulationParams ==
    << [name |-> "start_date", type |-> "str"],
       [name |-> "end_date", type |-> "str"],
       [name |-> "committable", type |-> "bool"],
       [name |-> "set_size", type |-> "int"],
       [name |-> "overlap", type |-> "int"] >>

IOParams ==
    << [name |-> "network_path", type |-> "str"],
       [name |-> "graphs_to_file", type |-> "bool"] >>

Scenario ==
    << [name |-> "simulation_params", type |-> "SimulationParams"],
       [name |-> "io_params", type |-> "IOParams"] >>

IsTypedDict(type) == type \in {"Scenario", "SimulationParams", "IOParams"}

Annotations(type) ==
    CASE type = "Scenario" -> Scenario
      [] type = "SimulationParams" -> SimulationParams
      [] type = "IOParams" -> IOParams

\* type.__required_keys__ (total=True: every annotated key)
RequiredKeys(type) ==
    { Annotations(type)[i].name : i \in DOMAIN Annotations(type) }

\* validate_dict(data, type_annotation, required_fields): "ok" when it
\* returns, the name of the exception when it raises.  Reading
\* __required_keys__ of a type that is no TypedDict raises AttributeError.
RECURSIVE ValidateDict(_, _, _)
RECURSIVE ValidateFields(_, _, _)
ValidateDict(value, type_annotation, required_fields) ==
    IF value.t # "dict" THEN "ValueError"
    ELSE IF required_fields \ DOMAIN value.f # {} THEN "ValueError"
    ELSE IF DOMAIN value.f \ required_fields # {} THEN "ValueError"
    ELSE ValidateFields(value, Annotations(type_annotation), 1)

\* The loop over __annotations__.items() from position i on.
ValidateFields(value, annotations, i) ==
    IF i > Len(annotations) THEN "ok"
    ELSE LET field == value.f[annotations[i].name]
             field_type == annotations[i].type
             step ==
                 IF field.t # "dict"
                 THEN IF field.t # field_type THEN "ValueError" ELSE "ok"
                 ELSE IF ~IsTypedDict(field_type) THEN "AttributeError"
                 ELSE ValidateDict(field, field_type,
                                   RequiredKeys(field_type))
         IN  IF step # "ok" THEN step
             ELSE ValidateFields(value, annotations, i + 1)

\* The declared type of key k.
TypeOfKey(annotations, k) ==
    annotations[CHOOSE i \in DOMAIN annotations : annotations[i].name = k].type

\* A file that validates: every section with its keys, every key with a
\* value of its declared type.
ValidSection(type) ==
    Dict([k \in RequiredKeys(type) |->
            Leaf(TypeOfKey(Annotations(type), k))])

ValidScenario ==
    Dict([s \in RequiredKeys("Scenario") |->
            ValidSection(TypeOfKey(Scenario, s))])

Without(g, k) == [x \in DOMAIN g \ {k} |-> g[x]]

With(g, k, v) == [x \in DOMAIN g \cup {k} |-> IF x = k THEN v ELSE g[x]]

\* What one change of the file can make of a section: another value in its
\* place, a key less, a key more, another value for a key.
SectionEdits(v) ==
    { Leaf(t) : t \in ValueTypes }
    \cup (IF v.t # "dict" THEN {}
          ELSE { Dict(Without(v.f, k)) : k \in DOMAIN v.f }
               \cup { Dict(With(v.f, "extra", Leaf("str"))) }
               \cup { Dict(With(v.f, k, Leaf(t))) :
                        k \in DOMAIN v.f, t \in ValueTypes })

\* What one change can make of the file.
Edits(d) ==
    { Dict(Without(d.f, s)) : s \in DOMAIN d.f }
    \cup { Dict(With(d.f, "extra", Leaf("str"))) }
    \cup UNION { { Dict(With(d.f, s, v)) : v \in SectionEdits(d.f[s]) } :
                   s \in DOMAIN d.f }

\* The files at most n changes away from a file that validates.
RECURSIVE Documents(_)
Documents(n) ==
    IF n = 0 THEN { ValidScenario }
    ELSE LET prev == Documents(n - 1)
         IN  prev \cup UNION { Edits(d) : d \in prev }

notScenario == <<chunkVars, bidVars, renewVars, joinVars, loadVars, fetchVars>>

InitScenario ==
    /\ is_file \in BOOLEAN
    /\ scenario \in Documents(MaxDefects)
    /\ spc = "start"
    /\ outcome = "none"
    /\ ChunkIdle
    /\ BidIdle
    /\ RenewIdle
    /\ JoinIdle
    /\ LoadIdle
    /\ FetchIdle

\* if not isfile(path): print(...); exit(os.EX_NOINPUT)
ExitNoInput ==
    /\ spc = "start"
    /\ ~is_file
    /\ spc' = "exited"
    /\ UNCHANGED <<is_file, scenario, outcome, notScenario>>

\* scenario = toml.load(path)
LoadToml ==
    /\ spc = "start"
    /\ is_file
    /\ spc' = "loaded"
    /\ UNCHANGED <<is_file, scenario, outcome, notScenario>>

\* validate_dict(scenario, Scenario, Scenario.__required_keys__); return
Validate ==
    /\ spc = "loaded"
    /\ outcome' = ValidateDict(scenario, "Scenario", RequiredKeys("Scenario"))
    /\ spc' = IF outcome' = "ok" THEN "returned" ELSE "raised"
    /\ UNCHANGED <<is_file, scenario, notScenario>>

NextScenario ==
    \/ ExitNoInput
    \/ LoadToml
    \/ Validate

SpecScenario == InitScenario /\ [][NextScenario]_vars

\* The data is a dict with exactly the keys of the type, every nested
\* section conforms and every other value has exactly its declared type.
RECURSIVE Conforms(_, _)
Conforms(value, type) ==
    /\ value.t = "dict"
    /\ DOMAIN value.f = RequiredKeys(type)
    /\ \A i \in DOMAIN Annotations(type) :
          LET field == value.f[Annotations(type)[i].name]
              field_type == Annotations(type)[i].type
          IN  IF IsTypedDict(field_type)
              THEN Conforms(field, field_type)
              ELSE field = Leaf(field_type)

\* C28 (scenario validation is exact): validate_dict returns without error
\* exactly when the data conforms to the declared structure, and on data
\* that does not conform (a missing key, an extra key, a non-dict where a
\* section is declared, a value of another type) it raises ValueError.
C28_ValidationExact ==
    spc \in {"returned", "raised"} =>
        /\ outcome = "ok" <=> Conforms(scenario, "Scenario")
        /\ ~Conforms(scenario, "Scenario") => outcome = "ValueError"

=============================================================================
